---- MODULE Spec2Model ----
(***************************************************************************)
(* Model of the BIFT search of BioXTAS RAW (src/bioxtasraw/BIFT.py).       *)
(*                                                                         *)
(* Several state machines share this module.                               *)
(*   Spec          the search entry point doBift running on a worker       *)
(*                 thread, with the driver thread that may set             *)
(*                 RAWGlobals.cancel_bift at any moment; fineSearch and    *)
(*                 fmin are part of it.                                    *)
(*   SpecInvalid   the same, for a call with N below 4.                    *)
(*   SpecBift      one call of the inner solver bift, set up by C_seeksol. *)
(*   FairSpecBift  the same, the solver always taking its next step.       *)
(*   SpecGrid      the grid traversal of doBift alone, with the matrix     *)
(*                 all_posteriors followed.                                *)
(*   SpecFmin      the fine search with fmin's own budget of evaluations   *)
(*                 and iterations.                                         *)
(*   SpecRerun     doBift called again while the flag is still set.        *)
(*   SpecSingle    one call of SingleSolve; SpecSingleInvalid the same     *)
(*                 for a dmax that is not positive.                        *)
(*   SpecMatrix    the matrix A of calcPosterior, built by shiftLeft and   *)
(*                 shiftRight.                                             *)
(*   SpecPrior     one call of distDistribution_Sphere.                    *)
(*   SpecSimplex   one call of fmin with the simplex and the objective     *)
(*                 followed exactly, on rational numbers.                  *)
(*   SpecSasm      one SASM measurement (src/src/SASM.py) and the calls    *)
(*                 setQrange, setBinning and reset made on it.             *)
(*                                                                         *)
(* Floating point values are modelled as extended values: a finite         *)
(* integer, NaN, +infinity or -infinity, with the IEEE rules for the       *)
(* comparisons the code makes (every comparison with NaN is false).        *)
(* np.log / np.exp are modelled in base 2 so that the grid of log(alpha)   *)
(* points stays integral; magnitudes of the evidence and of chi-squared    *)
(* are on a reduced scale on which the literals 1e20 and 1e22 of doBift    *)
(* are 100 and 10000 (TLC integers are 32 bit wide).                       *)
(***************************************************************************)
EXTENDS Integers, Sequences, FiniteSets, TLC

VARIABLES
    cancel_bift,    \* RAWGlobals.cancel_bift, written by the driver thread
    queue,          \* the records put on the progress queue, oldest first
    pc,             \* position of the doBift call
    args,           \* the arguments of the doBift call
    dmax_idx, alpha_idx, current_point, total_points,
    finalpost, bestc, alphafin, dmaxfin,
    post, c,        \* locals of doBift: result of the last GetEvidence
    iterations,     \* fmin: the iteration counter of the fine search
    fcalls,         \* fmin: the number of evaluations of the objective
    src_result,     \* local of doBift: what fineSearch returned
    ret,            \* what doBift returned
    cancel_at,      \* history: where doBift stood when the driver set
                    \* the flag, and the cell it was at
    only_unselectable,  \* history: every cell so far gave NaN or +inf
    runs,           \* history: the number of doBift calls the driver made
    all_posteriors, \* local of doBift: the matrix of the cells' post
    posts, chis,    \* history: the post of each cell evaluated, in order,
                    \* and the set of their chi-squared values
    ite, omega, dotsp, wzero, alpha, bkkmax, pcS,   \* the inner solver
    m, dP, Pold,    \* the inner solver: the pass of bift that last wrote
                    \* the buffer (0: as C_seeksol handed it in)
    P,              \* the inner solver: what the estimate was computed from
    sizeA, mat1, mat2, Amat,    \* calcPosterior: the matrix A (in halves)
    res, shift_i, pcM,          \* shiftLeft / shiftRight: res, the loop index
    priorN, scale_factor, dmax, \* distDistribution_Sphere: the arguments
    Pprior, sum1, avm, sum2, pcP,   \* distDistribution_Sphere: P and locals
    ss_args,        \* SingleSolve: alpha, dmax, N and the q-window of Ep
    Pr, chisq,      \* SingleSolve: what C_seeksol returned
    ift_sasm,       \* SingleSolve: the artifact it returned
    pcSS,           \* position of the SingleSolve call
    func, x0,       \* fmin: the objective and the initial guess
    sim, fsim,      \* fmin: the simplex and the objective at its vertices
    xopt,           \* fmin: what it returned
    pcF,            \* position of the fmin call
    sasm,           \* the fields of one SASM object
    raised          \* SASM: the exception the last call raised, if any

vars == <<cancel_bift, queue, pc, args, dmax_idx, alpha_idx, current_point,
          total_points, finalpost, bestc, alphafin, dmaxfin, post, c,
          iterations, fcalls, src_result, ret, cancel_at, only_unselectable,
          runs, all_posteriors, posts, chis,
          ite, omega, dotsp, wzero, alpha, bkkmax, pcS, m, dP, Pold, P,
          sizeA, mat1, mat2, Amat, res, shift_i, pcM,
          priorN, scale_factor, dmax, Pprior, sum1, avm, sum2, pcP,
          ss_args, Pr, chisq, ift_sasm, pcSS,
          func, x0, sim, fsim, xopt, pcF, sasm, raised>>

searchVars == <<cancel_bift, queue, pc, args, dmax_idx, alpha_idx,
                current_point, total_points, finalpost, bestc, alphafin,
                dmaxfin, post, c, iterations, fcalls, src_result, ret,
                cancel_at, only_unselectable, runs, all_posteriors, posts,
                chis>>

solverVars == <<ite, omega, dotsp, wzero, alpha, bkkmax, pcS, m, dP, Pold, P>>

\* what a step of the search leaves alone, and what a step of the solver
matrixVars == <<sizeA, mat1, mat2, Amat, res, shift_i, pcM>>

priorVars == <<priorN, scale_factor, dmax, Pprior, sum1, avm, sum2, pcP>>

singleVars == <<ss_args, Pr, chisq, ift_sasm, pcSS>>

simplexVars == <<func, x0, sim, fsim, xopt, pcF>>

sasmVars == <<sasm, raised>>

notSearch == <<solverVars, matrixVars, priorVars, singleVars, simplexVars,
               sasmVars>>

notSolver == <<searchVars, matrixVars, priorVars, singleVars, simplexVars,
               sasmVars>>

notMatrix == <<searchVars, solverVars, priorVars, singleVars, simplexVars,
               sasmVars>>

notPrior == <<searchVars, solverVars, matrixVars, singleVars, simplexVars,
              sasmVars>>

notSingle == <<searchVars, solverVars, matrixVars, priorVars, simplexVars,
               sasmVars>>

\* what a step of fmin leaves alone besides the flag and its two counters
notSimplex == <<queue, pc, args, dmax_idx, alpha_idx, current_point,
                total_points, finalpost, bestc, alphafin, dmaxfin, post, c,
                src_result, ret, only_unselectable, runs, all_posteriors,
                posts, chis, solverVars, matrixVars, priorVars, singleVars,
                sasmVars>>

notSasm == <<searchVars, solverVars, matrixVars, priorVars, singleVars,
             simplexVars>>

----------------------------------------------------------------------------
(* Bounds of the model.                                                    *)

\* largest number of D_max grid points (dmaxN) of a modelled call
MaxDmaxN == 2

\* largest number of alpha grid points (alphaN) of a modelled call
MaxAlphaN == 2

\* the simplex loop of fmin is followed for at most this many iterations
MaxIterations == 3

\* largest size of the matrix A that is built
MaxSizeA == 5

\* the driver calls doBift at most this many times
MaxRuns == 2

\* largest length of the prior that is computed
MaxPriorN == 6

----------------------------------------------------------------------------
(* Extended floating point values.                                         *)

Fin(n) == [k |-> "fin", v |-> n]

NaN == [k |-> "nan", v |-> 0]

PosInf == [k |-> "inf", v |-> 1]

NegInf == [k |-> "inf", v |-> -1]

IsFinite(x) == x.k = "fin"

\* x < y on floats
FLt(x, y) ==
    /\ x.k # "nan"
    /\ y.k # "nan"
    /\ \/ x.k = "fin" /\ y.k = "fin" /\ x.v < y.v
       \/ x.k = "fin" /\ y = PosInf
       \/ x = NegInf /\ y.k = "fin"
       \/ x = NegInf /\ y = PosInf

\* x == y on floats
FEq(x, y) == x.k # "nan" /\ y.k # "nan" /\ x = y

\* -x
FNeg(x) ==
    IF x.k = "nan" THEN NaN
    ELSE IF x.k = "inf" THEN [k |-> "inf", v |-> 0 - x.v]
    ELSE Fin(0 - x.v)

\* x - y
FSub(x, y) ==
    IF x.k = "nan" \/ y.k = "nan" THEN NaN
    ELSE IF x.k = "inf" /\ y.k = "inf"
         THEN (IF x.v = y.v THEN NaN ELSE x)
    ELSE IF x.k = "inf" THEN x
    ELSE IF y.k = "inf" THEN FNeg(y)
    ELSE Fin(x.v - y.v)

\* x + y
FAdd(x, y) == FSub(x, FNeg(y))

\* abs(x)
FAbs(x) == IF x.k = "fin" THEN Fin(IF x.v < 0 THEN 0 - x.v ELSE x.v)
           ELSE IF x.k = "inf" THEN PosInf ELSE NaN

\* the integer k with 2^k = n, for n a power of two
Log2(n) == CHOOSE k \in 0..30 : 2^k = n

Exp2(k) == 2^k

\* np.log of a float: NaN below zero, -inf at zero
FLog(x) ==
    IF x.k = "nan" THEN NaN
    ELSE IF x = PosInf THEN PosInf
    ELSE IF x = NegInf THEN NaN
    ELSE IF x.v < 0 THEN NaN
    ELSE IF x.v = 0 THEN NegInf
    ELSE Fin(Log2(x.v))

\* np.exp of a float
FExp(x) ==
    IF x.k = "nan" THEN NaN
    ELSE IF x = PosInf THEN PosInf
    ELSE IF x = NegInf THEN Fin(0)
    ELSE IF x.v < 0 THEN Fin(0)
    ELSE Fin(Exp2(x.v))

\* np.linspace(lo, hi, n)[i], 0-based
linspace(lo, hi, n, i) ==
    IF n = 1 THEN lo ELSE lo + (i * (hi - lo)) \div (n - 1)

----------------------------------------------------------------------------
(* The evidence functional.                                                *)

\* det(B/alpha + A) as the grid cell's data can make it
DetVals == {Fin(-1), Fin(0), Fin(1), PosInf}

\* 0.5*logdetA + alpha*s - 0.5*Chi - log(alphaPrior), NaN when the solver
\* returned a non-finite s or chi-squared
QVals == {Fin(-100), Fin(0), Fin(1), NaN}

\* c/I_exp.size
ChiVals == {Fin(1), Fin(2), NaN}

\* Evidence = 0.5*logdetA + Q - 0.5*log(detAB) - log(alphaPrior)
calcPosterior(Q, detAB) == FSub(Q, FLog(detAB))

\* GetEvidence returns -evd, c
GetEvidence(Q, detAB, chi) == [post |-> FNeg(calcPosterior(Q, detAB)), c |-> chi]

----------------------------------------------------------------------------
(* The progress records.                                                   *)

Update(spoint, tpoint, status) ==
    [tag |-> "update", spoint |-> spoint, tpoint |-> tpoint, status |-> status]

Canceled == [tag |-> "canceled", spoint |-> -1, tpoint |-> -1, status |-> ""]

Failed == [tag |-> "failed", spoint |-> -1, tpoint |-> -1, status |-> ""]

FineStatus == "Running a fine search"

----------------------------------------------------------------------------
(* doBift.                                                                 *)

\* N of a valid call, and N of a call that breaks the N >= 4 precondition
NVals == {4}

NTooSmall == {3}

ArgsWith(Ns) ==
        [N : Ns, alphamax : {4096}, alphamin : {1}, alphaN : 0..MaxAlphaN,
         maxDmax : {70}, minDmax : {10}, dmaxN : 0..MaxDmaxN]

Args == ArgsWith(NVals)

\* alpha_points[i]: the grid holds log(alpha)
alpha_points(i) ==
    linspace(Log2(args.alphamin), Log2(args.alphamax), args.alphaN, i)

dmax_points(i) == linspace(args.minDmax, args.maxDmax, args.dmaxN, i)

finalpost_init == 100

\* fmin line 100: N = len(x0), the seed being [log(alpha), dmax]
SimplexN == 1 + 1

bestc_init == 10000

\* the estimate P as C_seeksol hands it in: a copy of the prior m
Prior == [from |-> "prior", Pold |-> 0, dP |-> 0, omega |-> 0]

\* the solver is not running while the search is modelled
SolverOff ==
    /\ ite = 0
    /\ omega = 0
    /\ dotsp = Fin(0)
    /\ wzero = TRUE
    /\ alpha = 0
    /\ bkkmax = 0
    /\ pcS = "off"
    /\ m = 0
    /\ dP = 0
    /\ Pold = 0
    /\ P = Prior

\* the matrix A is not being built
MatrixOff ==
    /\ sizeA = 0
    /\ mat1 = << >>
    /\ mat2 = << >>
    /\ Amat = << >>
    /\ res = << >>
    /\ shift_i = 0
    /\ pcM = "off"

\* the prior is not being computed
PriorOff ==
    /\ priorN = 0
    /\ scale_factor = 0
    /\ dmax = 0
    /\ Pprior = << >>
    /\ sum1 = <<0, 1>>
    /\ avm = <<0, 1>>
    /\ sum2 = <<0, 1>>
    /\ pcP = "off"

\* no artifact
NoArtifact == [p |-> << >>, r |-> << >>, err |-> << >>, q |-> << >>,
               fit |-> << >>, dmax |-> 0, chisq |-> NaN]

\* SingleSolve is not running
SingleOff ==
    /\ ss_args = [alpha |-> 0, dmax |-> 0, N |-> 0, qmin |-> 0, qmax |-> 0]
    /\ Pr = << >>
    /\ chisq = NaN
    /\ ift_sasm = NoArtifact
    /\ pcSS = "off"

\* no call of fmin is followed
SimplexOff ==
    /\ func = "none"
    /\ x0 = << >>
    /\ sim = << >>
    /\ fsim = << >>
    /\ xopt = [none |-> TRUE, x |-> << >>]
    /\ pcF = "off"

\* no SASM object
NoSasm == [i_raw |-> << >>, q_raw |-> << >>, err_raw |-> << >>,
           i_binned |-> << >>, q_binned |-> << >>, err_binned |-> << >>,
           i |-> << >>, q |-> << >>, err |-> << >>,
           bin_size |-> 0, selected_q_range |-> <<0, 0>>]

SasmOff ==
    /\ sasm = NoSasm
    /\ raised = "off"

\* the search is not running while the solver is modelled
SearchOff ==
    /\ cancel_bift = FALSE
    /\ queue = << >>
    /\ pc = "off"
    /\ args \in ArgsWith(NVals)
    /\ args.alphaN = 1
    /\ args.dmaxN = 1
    /\ dmax_idx = 0
    /\ alpha_idx = 0
    /\ current_point = 0
    /\ total_points = 0
    /\ finalpost = Fin(finalpost_init)
    /\ bestc = Fin(bestc_init)
    /\ alphafin = Fin(-1)
    /\ dmaxfin = Fin(-1)
    /\ post = Fin(0)
    /\ c = Fin(0)
    /\ iterations = 0
    /\ fcalls = 0
    /\ src_result = "unset"
    /\ ret = "running"
    /\ cancel_at = [pc |-> "never", point |-> 0]
    /\ only_unselectable = TRUE
    /\ runs = 0
    /\ all_posteriors = << >>
    /\ posts = << >>
    /\ chis = {}

InitWith(A) ==
    /\ cancel_bift = FALSE
    /\ queue = << >>
    /\ pc = "idle"
    /\ args \in A
    /\ dmax_idx = 0
    /\ alpha_idx = 0
    /\ current_point = 0
    /\ total_points = 0
    /\ finalpost = Fin(finalpost_init)
    /\ bestc = Fin(bestc_init)
    /\ alphafin = Fin(-1)
    /\ dmaxfin = Fin(-1)
    /\ post = Fin(0)
    /\ c = Fin(0)
    /\ iterations = 0
    /\ fcalls = 0
    /\ src_result = "unset"
    /\ ret = "running"
    /\ cancel_at = [pc |-> "never", point |-> 0]
    /\ only_unselectable = TRUE
    /\ runs = 1
    /\ all_posteriors = << >>
    /\ posts = << >>
    /\ chis = {}
    /\ SolverOff
    /\ MatrixOff
    /\ PriorOff
    /\ SingleOff
    /\ SimplexOff
    /\ SasmOff

Init == InitWith(Args)

\* a call whose N is below 4
InitInvalid == InitWith(ArgsWith(NTooSmall))

\* the driver thread sets the flag (write-once), at any moment
SetCancel ==
    /\ ~cancel_bift
    /\ cancel_bift' = TRUE
    /\ cancel_at' = [pc |-> pc, point |-> current_point]
    /\ UNCHANGED <<queue, pc, args, dmax_idx, alpha_idx, current_point,
                   total_points, finalpost, bestc, alphafin, dmaxfin, post, c,
                   iterations, fcalls, src_result, ret, only_unselectable>>
    /\ UNCHANGED <<runs, all_posteriors, posts, chis>>
    /\ UNCHANGED notSearch

\* lines 402-432: set up the grid and enter the loops
doBiftEntry ==
    /\ pc = "idle"
    /\ total_points' = args.dmaxN * args.alphaN
    /\ current_point' = 0
    /\ finalpost' = Fin(finalpost_init)
    /\ bestc' = Fin(bestc_init)
    /\ alphafin' = Fin(-1)
    /\ dmaxfin' = Fin(-1)
    /\ alpha_idx' = 0
    /\ IF args.dmaxN > 0 /\ args.alphaN > 0
       THEN dmax_idx' = 0 /\ pc' = "check"
       ELSE dmax_idx' = args.dmaxN /\ pc' = "postgrid"
    /\ UNCHANGED <<cancel_bift, queue, args, post, c, iterations, fcalls,
                   src_result, ret, cancel_at, only_unselectable>>
    /\ all_posteriors' = [d \in 0..(args.dmaxN - 1) |->
                             [a \in 0..(args.alphaN - 1) |-> Fin(0)]]
    /\ UNCHANGED <<runs, posts, chis>>
    /\ UNCHANGED notSearch

GridCancel_skip(flag) == FALSE

\* line 434: if RAWGlobals.cancel_bift
GridCancel(flag) == flag

FlagAfterCancel_clear(flag) == FALSE

\* lines 434-436: the flag is read, never written
FlagAfterCancel(flag) == flag

\* lines 434-436: the cancellation check before a cell
GridCheck ==
    /\ pc = "check"
    /\ IF GridCancel(cancel_bift)
       THEN /\ queue' = Append(queue, Canceled)
            /\ ret' = "None"
            /\ pc' = "done"
            /\ cancel_bift' = FlagAfterCancel(cancel_bift)
       ELSE /\ pc' = "eval"
            /\ UNCHANGED <<queue, ret, cancel_bift>>
    /\ UNCHANGED <<args, dmax_idx, alpha_idx, current_point,
                   total_points, finalpost, bestc, alphafin, dmaxfin, post, c,
                   iterations, fcalls, src_result, cancel_at,
                   only_unselectable>>
    /\ UNCHANGED <<runs, all_posteriors, posts, chis>>
    /\ UNCHANGED notSearch

bift_status_reversed(cp, tp) == Update(tp - cp, tp, "")

\* lines 444-451: the record of a grid cell
bift_status(cp, tp) == Update(cp, tp, "")

Selects_orequal(p, best) == FLt(p, best) \/ FEq(p, best)

\* line 454: if post < finalpost
Selects(p, best) == FLt(p, best)

\* lines 438-468: evaluate the cell, publish it, track the best, advance.
\* Qs, Dets and Chis are the outcomes GetEvidence is drawn from; the matrix
\* all_posteriors (line 465), which nothing reads before the artifact, and
\* the histories posts and chis are followed only when keep is set.
CellEvalWith(Qs, Dets, Chis, keep) ==
    /\ pc = "eval"
    /\ \E Q \in Qs, detAB \in Dets, chi \in Chis :
         LET r == GetEvidence(Q, detAB, chi)
             last == alpha_idx + 1 = args.alphaN
         IN  /\ post' = r.post
             /\ c' = r.c
             /\ queue' = Append(queue, bift_status(current_point, total_points))
             /\ IF Selects(r.post, finalpost)
                THEN /\ finalpost' = r.post
                     /\ alphafin' = FExp(Fin(alpha_points(alpha_idx)))
                     /\ dmaxfin' = Fin(dmax_points(dmax_idx))
                ELSE UNCHANGED <<finalpost, alphafin, dmaxfin>>
             /\ bestc' = IF FLt(r.c, bestc) THEN r.c ELSE bestc
             /\ IF keep
                THEN /\ all_posteriors' =
                          [all_posteriors EXCEPT ![dmax_idx][alpha_idx] = r.post]
                     /\ posts' = Append(posts, r.post)
                     /\ chis' = chis \cup {r.c}
                ELSE UNCHANGED <<all_posteriors, posts, chis>>
             /\ current_point' = current_point + 1
             /\ alpha_idx' = IF last THEN 0 ELSE alpha_idx + 1
             /\ dmax_idx' = IF last THEN dmax_idx + 1 ELSE dmax_idx
             /\ pc' = IF last /\ dmax_idx + 1 = args.dmaxN
                      THEN "postgrid" ELSE "check"
             /\ only_unselectable' =
                  (only_unselectable /\ (r.post = NaN \/ r.post = PosInf))
    /\ UNCHANGED <<cancel_bift, args, total_points, iterations, fcalls,
                   src_result, ret, cancel_at>>
    /\ UNCHANGED runs
    /\ UNCHANGED notSearch

CellEval == CellEvalWith(QVals, DetVals, ChiVals, FALSE)

FailedExit_fallthrough == "fine"

\* lines 471-472: after the 'failed' record, return
FailedExit == "done"

NoBest_never(af, df) == FALSE

\* line 470: if alphafin == -1 and dmaxfin == -1
NoBest(af, df) == FEq(af, Fin(-1)) /\ FEq(df, Fin(-1))

\* lines 470-484 and fmin lines 98-139: the failure exit, else the
\* 'Running a fine search' record and the start of fineSearch/fmin
PostGrid ==
    /\ pc = "postgrid"
    /\ IF NoBest(alphafin, dmaxfin)
       THEN /\ queue' = Append(queue, Failed)
            /\ ret' = "None"
            /\ pc' = FailedExit
            /\ UNCHANGED <<iterations, fcalls>>
       ELSE /\ queue' = Append(queue,
                          Update(current_point, total_points, FineStatus))
            /\ iterations' = 1
            /\ fcalls' = SimplexN + 1
            /\ pc' = "fine"
            /\ UNCHANGED ret
    /\ UNCHANGED <<cancel_bift, args, dmax_idx, alpha_idx, current_point,
                   total_points, finalpost, bestc, alphafin, dmaxfin, post, c,
                   src_result, cancel_at, only_unselectable>>
    /\ UNCHANGED <<runs, all_posteriors, posts, chis>>
    /\ UNCHANGED notSearch

\* how far the simplex moved its best vertex from the seed, per coordinate
FineShift == {0, 1}

FminCancel_skip(flag) == FALSE

FminCancel_always(flag) == TRUE

\* fmin line 143: if RAWGlobals.cancel_bift
FminCancel(flag) == flag

fineSearch_raw(seedalpha, seeddmax, da, dd) ==
    <<FAdd(FLog(seedalpha), Fin(da)), FAdd(seeddmax, Fin(dd))>>

\* fineSearch lines 559-564 on fmin's result opt = sim[0], the seed
\* [log(alphafin), dmaxfin] moved by (da, dd): np.exp(opt[0]), opt[1]
fineSearch(seedalpha, seeddmax, da, dd) ==
    <<FExp(FAdd(FLog(seedalpha), Fin(da))), FAdd(seeddmax, Fin(dd))>>

HasResult_always(src) == TRUE

\* line 486: if src_result is not None
HasResult(src) == src # "None"

\* fmin lines 148-190: how many times one simplex iteration evaluates the
\* objective: the reflection; with it an expansion or a contraction; with a
\* failed contraction the shrink of the SimplexN other vertices
EvalsPerIteration == {1, 2, 2 + SimplexN}

\* fmin lines 141-201 seen from doBift, one pass of the while loop, inloop
\* being the loop guard: the cancellation check (fmin returns None,
\* fineSearch returns None), the convergence break, else one simplex
\* iteration.  When fmin returns, doBift lines 484-490 take the result over
\* or publish 'canceled'.  iterations and fcalls are locals of fmin: they
\* are forgotten (0) once fmin has returned a result, and left as the
\* cancelled pass found them when it returns None.
FminPass(inloop) ==
    /\ pc = "fine"
    /\ \E converged \in BOOLEAN, da \in FineShift, dd \in FineShift,
          evals \in EvalsPerIteration :
         LET cancelled == inloop /\ FminCancel(cancel_bift)
             src == IF cancelled THEN "None" ELSE "pair"
         IN  IF inloop /\ ~cancelled /\ ~converged
             THEN /\ iterations' = iterations + 1
                  /\ fcalls' = fcalls + evals
                  /\ UNCHANGED <<queue, ret, pc, alphafin, dmaxfin,
                                 src_result>>
             ELSE /\ src_result' = src
                  /\ IF HasResult(src)
                     THEN /\ alphafin' =
                               fineSearch(alphafin, dmaxfin, da, dd)[1]
                          /\ dmaxfin' =
                               fineSearch(alphafin, dmaxfin, da, dd)[2]
                          /\ pc' = "final"
                          /\ iterations' = 0
                          /\ fcalls' = 0
                          /\ UNCHANGED <<queue, ret>>
                     ELSE /\ queue' = Append(queue, Canceled)
                          /\ ret' = "None"
                          /\ pc' = "done"
                          /\ UNCHANGED <<alphafin, dmaxfin, iterations,
                                         fcalls>>
    /\ UNCHANGED <<cancel_bift, args, dmax_idx, alpha_idx, current_point,
                   total_points, finalpost, bestc, post, c, cancel_at,
                   only_unselectable>>
    /\ UNCHANGED <<runs, all_posteriors, posts, chis>>
    /\ UNCHANGED notSearch

\* the fine search with the iteration budget cut to MaxIterations
FminLoop == FminPass(iterations < MaxIterations)

\* lines 496-553: the final solve, the artifact and the best record
FinalSolve ==
    /\ pc = "final"
    /\ \E Q \in QVals, detAB \in DetVals, chi \in ChiVals :
         /\ post' = calcPosterior(Q, detAB)
         /\ c' = chi
    /\ queue' = Append(queue, Update(current_point, total_points, ""))
    /\ ret' = "ift_sasm"
    /\ pc' = "done"
    /\ UNCHANGED <<cancel_bift, args, dmax_idx, alpha_idx, current_point,
                   total_points, finalpost, bestc, alphafin, dmaxfin,
                   iterations, fcalls, src_result, cancel_at,
                   only_unselectable>>
    /\ UNCHANGED <<runs, all_posteriors, posts, chis>>
    /\ UNCHANGED notSearch

Next ==
    \/ SetCancel
    \/ doBiftEntry
    \/ GridCheck
    \/ CellEval
    \/ PostGrid
    \/ FminLoop
    \/ FinalSolve

Spec == Init /\ [][Next]_vars

\* outcomes of GetEvidence for the grid traversal with the matrix followed
QGrid == {Fin(0), Fin(1), NaN}

DetGrid == {Fin(1)}

CellEvalGrid == CellEvalWith(QGrid, DetGrid, ChiVals, TRUE)

\* the grid traversal alone, not cancelled
NextGrid ==
    \/ doBiftEntry
    \/ GridCheck
    \/ CellEvalGrid

SpecGrid == Init /\ [][NextGrid]_vars

\* the driver calls doBift again, with a fresh queue, after a call has
\* returned and while the flag it set is still set
Restart ==
    /\ pc = "done"
    /\ cancel_bift
    /\ runs < MaxRuns
    /\ runs' = runs + 1
    /\ pc' = "idle"
    /\ args' \in Args
    /\ queue' = << >>
    /\ dmax_idx' = 0
    /\ alpha_idx' = 0
    /\ current_point' = 0
    /\ total_points' = 0
    /\ finalpost' = Fin(finalpost_init)
    /\ bestc' = Fin(bestc_init)
    /\ alphafin' = Fin(-1)
    /\ dmaxfin' = Fin(-1)
    /\ post' = Fin(0)
    /\ c' = Fin(0)
    /\ iterations' = 0
    /\ fcalls' = 0
    /\ src_result' = "unset"
    /\ ret' = "running"
    /\ only_unselectable' = TRUE
    /\ all_posteriors' = << >>
    /\ posts' = << >>
    /\ chis' = {}
    /\ UNCHANGED <<cancel_bift, cancel_at>>
    /\ UNCHANGED notSearch

NextRerun ==
    \/ Next
    \/ Restart

SpecRerun == Init /\ [][NextRerun]_vars

\* fmin lines 103-106: maxiter = N * 200, maxfun = N * 200
maxiter == SimplexN * 200

maxfun == SimplexN * 200

\* the fine search with fmin's own budget
FminLoopFull == FminPass(fcalls < maxfun /\ iterations < maxiter)

\* doBift at its call of fineSearch, after a grid of one cell that was
\* selected, with fmin at the head of its loop (line 141)
InitFmin ==
    /\ cancel_bift = FALSE
    /\ args \in ArgsWith(NVals)
    /\ args.alphaN = 1
    /\ args.dmaxN = 1
    /\ queue = <<bift_status(0, 1), Update(1, 1, FineStatus)>>
    /\ pc = "fine"
    /\ dmax_idx = 1
    /\ alpha_idx = 0
    /\ current_point = 1
    /\ total_points = 1
    /\ finalpost = Fin(0)
    /\ bestc = Fin(1)
    /\ alphafin = FExp(Fin(alpha_points(0)))
    /\ dmaxfin = Fin(dmax_points(0))
    /\ post = Fin(0)
    /\ c = Fin(1)
    /\ iterations = 1
    /\ fcalls = SimplexN + 1
    /\ src_result = "unset"
    /\ ret = "running"
    /\ cancel_at = [pc |-> "never", point |-> 0]
    /\ only_unselectable = FALSE
    /\ runs = 1
    /\ all_posteriors = [d \in 0..0 |-> [a \in 0..0 |-> Fin(0)]]
    /\ posts = << >>
    /\ chis = {}
    /\ SolverOff
    /\ MatrixOff
    /\ PriorOff
    /\ SingleOff
    /\ SimplexOff
    /\ SasmOff

NextFmin ==
    \/ SetCancel
    \/ FminLoopFull

SpecFmin == InitFmin /\ [][NextFmin]_vars

SpecInvalid == InitInvalid /\ [][Next]_vars

----------------------------------------------------------------------------
(* The inner solver: C_seeksol's set-up and bift.                          *)
(*                                                                         *)
(* omega and dotsp are held in units of 1/Unit.  The vectors m, dP, Pold   *)
(* and P are held by their provenance (the pass that wrote them, and what  *)
(* P was blended from), not by value: what the loops read of their values  *)
(* is the sign of the raw dot product of the two gradients, the cosine it  *)
(* is normalised to, and whether one of the gradient norms is zero; each   *)
(* recomputation draws these from the outcomes the data can produce.       *)
(* dotsp holds the cosine already while it stands for the raw dot product  *)
(* (same sign).                                                            *)

Unit == 1024 * 1000

omegareduction == 2

minit == 10

maxit == 1000

\* dotsptol = 0.001
dotsptol == Unit \div 1000

\* omegamin = 0.001
omegamin == Unit \div 1000

\* omega = 0.5
omega_init == Unit \div 2

\* alpha of the solve, and bkk.max()
AlphaVals == {5, 20}

BkkVals == {1}

\* state at the entry of bift (C_seeksol lines 270-284, bift lines 784-790)
InitBift ==
    /\ SearchOff
    /\ MatrixOff
    /\ PriorOff
    /\ SingleOff
    /\ SimplexOff
    /\ SasmOff
    /\ ite = 0
    /\ omega = omega_init
    /\ dotsp = Fin(0)
    /\ wzero = TRUE
    /\ alpha \in AlphaVals
    /\ \E b \in BkkVals : bkkmax = b * 10
    /\ pcS = "outer"
    /\ m = 0
    /\ dP = 0
    /\ Pold = 0
    /\ P = Prior

OuterCond_nominit(i, w, d) ==
    i < maxit /\ w > omegamin /\ FLt(Fin(dotsptol), FAbs(FSub(Fin(Unit), d)))

\* line 792: (ite < maxit and omega > omegamin and abs(1-dotsp) > dotsptol)
\*           or ite < minit
OuterCond(i, w, d) ==
    \/ /\ i < maxit
       /\ w > omegamin
       /\ FLt(Fin(dotsptol), FAbs(FSub(Fin(Unit), d)))
    \/ i < minit

InnerCond_noomegamin(i, w, d) ==
    /\ FLt(d, Fin(0))
    /\ alpha < bkkmax
    /\ i > 1

\* line 851: dotsp < 0 and alpha < bkkmax and ite > 1 and omega > omegamin
InnerCond(i, w, d) ==
    /\ FLt(d, Fin(0))
    /\ alpha < bkkmax
    /\ i > 1
    /\ w > omegamin

\* cosines of the two gradients when both norms are positive
DotVals == {Fin(0 - Unit \div 2), Fin(0 - Unit \div 4), Fin(Unit \div 2),
            Fin(Unit - dotsptol), NaN}

\* lines 829-847 and 861-879: the recomputation of dotsp, wgrads, wgradc.
\* In the pass that made no update (ite = 0 at its start) P is the prior m:
\* the smoothness gradient is zero, or NaN for a non-finite prior.
Gradients(first) ==
    IF first
    THEN {[dot |-> Fin(0), wz |-> TRUE], [dot |-> NaN, wz |-> FALSE]}
    ELSE {[dot |-> d, wz |-> FALSE] : d \in DotVals}
         \cup {[dot |-> Fin(0), wz |-> TRUE]}

Reduce_none(w) == w

Reduce_grow(w) == w * omegareduction

\* line 852: omega = omega / omegareduction
Reduce(w) == w \div omegareduction

\* line 794: if ite != 0
UpdateRuns(i) == i # 0

\* lines 821 and 857: P = (1-omega)*Pold + omega*dP, of the buffers as
\* written in passes po and dp
Blend(po, dp, w) == [from |-> "blend", Pold |-> po, dP |-> dp, omega |-> w]

Snapshot_stale(pass) == 0

\* line 819: Pold[0,k] = P[0,k], made in the given pass
Snapshot(pass) == pass

\* lines 792-847: one pass of the outer loop up to the inner loop
OuterIter ==
    /\ pcS = "outer"
    /\ OuterCond(ite, omega, dotsp)
    /\ ite' = ite + 1
    /\ IF UpdateRuns(ite)
       THEN /\ m' = ite + 1
            /\ dP' = ite + 1
            /\ Pold' = Snapshot(ite + 1)
            /\ P' = Blend(Snapshot(ite + 1), ite + 1, omega)
       ELSE UNCHANGED <<m, dP, Pold, P>>
    /\ \E g \in Gradients(ite = 0) :
         /\ dotsp' = g.dot
         /\ wzero' = g.wz
    /\ pcS' = "inner"
    /\ UNCHANGED <<omega, alpha, bkkmax>>
    /\ UNCHANGED notSolver

\* lines 851-879: one pass of the backtracking loop
Backtrack ==
    /\ pcS = "inner"
    /\ InnerCond(ite, omega, dotsp)
    /\ omega' = Reduce(omega)
    /\ P' = Blend(Pold, dP, Reduce(omega))
    /\ \E g \in Gradients(FALSE) :
         /\ dotsp' = g.dot
         /\ wzero' = g.wz
    /\ UNCHANGED <<ite, alpha, bkkmax, pcS, m, dP, Pold>>
    /\ UNCHANGED notSolver

\* lines 881-886: leave the backtracking loop and normalise dotsp
Normalize ==
    /\ pcS = "inner"
    /\ ~InnerCond(ite, omega, dotsp)
    /\ dotsp' = IF wzero THEN Fin(Unit) ELSE dotsp
    /\ pcS' = "outer"
    /\ UNCHANGED <<ite, omega, wzero, alpha, bkkmax, m, dP, Pold, P>>
    /\ UNCHANGED notSolver

\* line 888: return s
Return ==
    /\ pcS = "outer"
    /\ ~OuterCond(ite, omega, dotsp)
    /\ pcS' = "done"
    /\ UNCHANGED <<ite, omega, dotsp, wzero, alpha, bkkmax, m, dP, Pold, P>>
    /\ UNCHANGED notSolver

NextBift ==
    \/ OuterIter
    \/ Backtrack
    \/ Normalize
    \/ Return

SpecBift == InitBift /\ [][NextBift]_vars

\* the solver is a sequential routine: it takes its next step
FairSpecBift == SpecBift /\ WF_vars(NextBift)

----------------------------------------------------------------------------
(* The matrix A of calcPosterior, built from two circular shifts of the    *)
(* identity.  Matrices are held flattened, row by row, as the shifts see   *)
(* them (reshape(1, array_length)); Amat holds A in units of one half.     *)

\* b[0, j] of a flattened array: a negative index counts from the end
At(b, j) == b[(IF j < 0 THEN j + Len(b) ELSE j) + 1]

\* entry (row, col) of a flattened square matrix, both from 0
Entry(mat, n, row, col) == mat[row * n + col + 1]

\* np.eye(n), flattened
eye(n) == [k \in 1..(n * n) |-> IF (k - 1) \div n = (k - 1) % n THEN 1 ELSE 0]

\* np.zeros(n)
zeros(n) == [k \in 1..n |-> 0]

\* shiftLeft lines 625-628: the value stored in res[i]
shiftLeft(b, shift, i) ==
    IF i < Len(b) - shift
    THEN At(b, shift + i)
    ELSE At(b, Len(b) - 1 - i - shift)

\* shiftRight line 647: the value stored in res[i]
shiftRight(b, shift, i) == At(b, i - shift)

ZeroCorner_keep(mat, k) == mat

\* lines 737-739: mat[...] = 0 on the flattened position k
ZeroCorner(mat, k) == [mat EXCEPT ![k] = 0]

\* line 741: A = (mat1 + mat2) * -0.5 + np.eye(...), in halves
BuildA(ma, mb, n) ==
    [k \in 1..(n * n) |-> 2 * eye(n)[k] - (ma[k] + mb[k])]

\* calcPosterior lines 731-735 and shiftLeft lines 615-620: B has been
\* handed in, the first shift starts
InitMatrix ==
    /\ SearchOff
    /\ SolverOff
    /\ PriorOff
    /\ SingleOff
    /\ SimplexOff
    /\ SasmOff
    /\ sizeA \in 1..MaxSizeA
    /\ mat1 = << >>
    /\ mat2 = << >>
    /\ Amat = << >>
    /\ res = zeros(sizeA * sizeA)
    /\ shift_i = 0
    /\ pcM = "shiftLeft"

\* shiftLeft lines 623-628: one pass of the loop
ShiftLeftStep ==
    /\ pcM = "shiftLeft"
    /\ shift_i < sizeA * sizeA
    /\ res' = [res EXCEPT ![shift_i + 1] = shiftLeft(eye(sizeA), 1, shift_i)]
    /\ shift_i' = shift_i + 1
    /\ UNCHANGED <<sizeA, mat1, mat2, Amat, pcM>>
    /\ UNCHANGED notMatrix

\* shiftLeft line 630 and shiftRight lines 637-642: mat1 is returned, the
\* second shift starts
ShiftLeftReturn ==
    /\ pcM = "shiftLeft"
    /\ shift_i = sizeA * sizeA
    /\ mat1' = res
    /\ res' = zeros(sizeA * sizeA)
    /\ shift_i' = 0
    /\ pcM' = "shiftRight"
    /\ UNCHANGED <<sizeA, mat2, Amat>>
    /\ UNCHANGED notMatrix

\* shiftRight lines 645-647: one pass of the loop
ShiftRightStep ==
    /\ pcM = "shiftRight"
    /\ shift_i < sizeA * sizeA
    /\ res' = [res EXCEPT ![shift_i + 1] = shiftRight(eye(sizeA), 1, shift_i)]
    /\ shift_i' = shift_i + 1
    /\ UNCHANGED <<sizeA, mat1, mat2, Amat, pcM>>
    /\ UNCHANGED notMatrix

\* shiftRight line 649: mat2 is returned
ShiftRightReturn ==
    /\ pcM = "shiftRight"
    /\ shift_i = sizeA * sizeA
    /\ mat2' = res
    /\ pcM' = "corners"
    /\ UNCHANGED <<sizeA, mat1, Amat, res, shift_i>>
    /\ UNCHANGED notMatrix

\* calcPosterior lines 737-741: zero the two corners and combine
MakeA ==
    /\ pcM = "corners"
    /\ mat2' = ZeroCorner(mat2, 1)
    /\ mat1' = ZeroCorner(mat1, sizeA * sizeA)
    /\ Amat' = BuildA(mat1', mat2', sizeA)
    /\ pcM' = "done"
    /\ UNCHANGED <<sizeA, res, shift_i>>
    /\ UNCHANGED notMatrix

NextMatrix ==
    \/ ShiftLeftStep
    \/ ShiftLeftReturn
    \/ ShiftRightStep
    \/ ShiftRightReturn
    \/ MakeA

SpecMatrix == InitMatrix /\ [][NextMatrix]_vars

----------------------------------------------------------------------------
(* The sphere prior, distDistribution_Sphere.  Its arithmetic is followed  *)
(* exactly, on rational numbers <<numerator, denominator>> in lowest terms *)
(* with a positive denominator.                                            *)

RECURSIVE GCD(_, _)
GCD(a, b) == IF b = 0 THEN a ELSE GCD(b, a % b)

Abs(n) == IF n < 0 THEN 0 - n ELSE n

Rat(n, d) ==
    LET g == GCD(Abs(n), Abs(d))
    IN  IF d < 0 THEN <<(0 - n) \div g, (0 - d) \div g>>
        ELSE <<n \div g, d \div g>>

RMul(x, y) ==
    LET g1 == GCD(Abs(x[1]), y[2])
        g2 == GCD(Abs(y[1]), x[2])
        h1 == IF g1 = 0 THEN 1 ELSE g1
        h2 == IF g2 = 0 THEN 1 ELSE g2
    IN  Rat((x[1] \div h1) * (y[1] \div h2), (x[2] \div h2) * (y[2] \div h1))

\* division by a number that is not zero
RDiv(x, y) == RMul(x, Rat(y[2], y[1]))

RAdd(x, y) ==
    LET l == (x[2] \div GCD(x[2], y[2])) * y[2]
    IN  Rat(x[1] * (l \div x[2]) + y[1] * (l \div y[2]), l)

RSub(x, y) == RAdd(x, <<0 - y[1], y[2]>>)

RLt(x, y) == RSub(x, y)[1] < 0

RLe(x, y) == RSub(x, y)[1] <= 0

\* pow(x, 2) and pow(x, 3)
RPow2(x) == RMul(x, x)

RPow3(x) == RMul(x, RMul(x, x))

\* sum(P)
RECURSIVE RSum(_)
RSum(seq) == IF seq = << >> THEN Rat(0, 1)
             ELSE RAdd(seq[1], RSum(Tail(seq)))

\* max(P)
RECURSIVE RMax(_)
RMax(seq) == IF Len(seq) = 1 THEN seq[1]
             ELSE LET t == RMax(Tail(seq))
                  IN  IF RLt(seq[1], t) THEN t ELSE seq[1]

\* pmin = 0.005
pmin == Rat(5, 1000)

\* line 574: np.linspace(0, dmax, N), entry k from 0
R_axis_vector(n, d, k) == Rat(d * k, n - 1)

\* line 579: psum = pow(dmax, 3)/24
psum(d) == Rat(d * d * d, 24)

\* line 581: strange_norm_factor = scale_factor / psum * delta_R
strange_norm_factor(n, sf, d) ==
    RMul(RDiv(Rat(sf, 1), psum(d)), R_axis_vector(n, d, 1))

\* line 584: P(r) for a sphere, entry k from 0
SphereP(n, sf, d, k) ==
    LET r == R_axis_vector(n, d, k)
        x == RDiv(r, Rat(d, 1))
    IN  RMul(RMul(RPow2(r),
                  RAdd(RSub(Rat(1, 1), RMul(Rat(3, 2), x)),
                       RMul(Rat(1, 2), RPow3(x)))),
             strange_norm_factor(n, sf, d))

FloorAt_keep(v, a) == v

\* line 605: P * (P > avm) + avm * (P <= avm), one entry
FloorAt(v, a) == IF RLt(a, v) THEN v ELSE a

ScaleVals == {1, 2, 7}

PriorDmaxVals == {1, 3, 10}

\* a call with N points, a positive scale factor and a positive dmax
InitPrior ==
    /\ SearchOff
    /\ SolverOff
    /\ MatrixOff
    /\ SingleOff
    /\ SimplexOff
    /\ SasmOff
    /\ priorN \in 3..MaxPriorN
    /\ scale_factor \in ScaleVals
    /\ dmax \in PriorDmaxVals
    /\ Pprior = << >>
    /\ sum1 = Rat(0, 1)
    /\ avm = Rat(0, 1)
    /\ sum2 = Rat(0, 1)
    /\ pcP = "start"

\* lines 574-584: the unfloored P
PriorShape ==
    /\ pcP = "start"
    /\ Pprior' = [k \in 1..priorN |->
                     SphereP(priorN, scale_factor, dmax, k - 1)]
    /\ pcP' = "shape"
    /\ UNCHANGED <<priorN, scale_factor, dmax, sum1, avm, sum2>>
    /\ UNCHANGED notPrior

\* lines 603-605: sum1, avm and the floor
PriorFloor ==
    /\ pcP = "shape"
    /\ sum1' = RSum(Pprior)
    /\ avm' = RMul(pmin, RMax(Pprior))
    /\ Pprior' = [k \in 1..priorN |-> FloorAt(Pprior[k], avm')]
    /\ pcP' = "floored"
    /\ UNCHANGED <<priorN, scale_factor, dmax, sum2>>
    /\ UNCHANGED notPrior

\* lines 606-611: sum2, the rescaling P * sum1/sum2, and the return
PriorRescale ==
    /\ pcP = "floored"
    /\ sum2' = RSum(Pprior)
    /\ Pprior' = [k \in 1..priorN |-> RDiv(RMul(Pprior[k], sum1), sum2')]
    /\ pcP' = "done"
    /\ UNCHANGED <<priorN, scale_factor, dmax, sum1, avm>>
    /\ UNCHANGED notPrior

NextPrior ==
    \/ PriorShape
    \/ PriorFloor
    \/ PriorRescale

SpecPrior == InitPrior /\ [][NextPrior]_vars

----------------------------------------------------------------------------
(* SingleSolve: one solve with forced alpha and dmax, and the artifact.    *)
(* The driver thread may set the flag while it runs.  r is exact (rational *)
(* numbers); p is held in units of 1/(4 pi); q and fit are held by the     *)
(* rows of Ep they come from.                                              *)

\* x / (4*np.pi*dr), x an extended value and dr a rational: 0/0 and NaN
\* give NaN, a non-zero value over 0 an infinity
FDivR(x, dr) ==
    IF x.k = "nan" THEN NaN
    ELSE IF dr[1] = 0
         THEN IF x.k = "fin" /\ x.v = 0 THEN NaN
              ELSE IF x.v > 0 THEN PosInf ELSE NegInf
    ELSE IF x.k = "inf" THEN (IF dr[1] > 0 THEN x ELSE FNeg(x))
    ELSE Fin((x.v * dr[2]) \div dr[1])

\* lines 330-365 (doBift lines 509-541): the artifact made of the solver's
\* Pr, the chi-squared, dmaxfin (dfin) and the q-window qmin:qmax (lo:hi)
Artifact(pr, chi, dfin, lo, hi) ==
    LET n == Len(pr) + 2
        r == [k \in 1..n |-> Rat(dfin * (k - 1), n - 1)]
        dr == RSub(r[3], r[2])
        pinned == <<Fin(0)>> \o pr \o <<Fin(0)>>
        p == [k \in 1..n |-> FDivR(pinned[k], dr)]
    IN  [p |-> p,
         r |-> r,
         err |-> [k \in 1..Len(p) |-> 1],
         q |-> [j \in 1..(hi - lo) |-> lo + j - 1],
         fit |-> [j \in 1..(hi - lo) |-> lo + j - 1],
         dmax |-> dfin,
         chisq |-> chi]

\* the values of one entry of the solver's P
PrVals == {Fin(0), Fin(60), Fin(120), NaN}

SingleDmaxVals == {30, 60}

SingleDmaxInvalid == {0, -30}

SingleArgsWith(Ds) ==
    [alpha : {1}, dmax : Ds, N : {4, 5}, qmin : {0, 1}, qmax : {3}]

InitSingleWith(Ds) ==
    /\ SearchOff
    /\ SolverOff
    /\ MatrixOff
    /\ PriorOff
    /\ SimplexOff
    /\ SasmOff
    /\ ss_args \in SingleArgsWith(Ds)
    /\ Pr = << >>
    /\ chisq = NaN
    /\ ift_sasm = NoArtifact
    /\ pcSS = "start"

InitSingle == InitSingleWith(SingleDmaxVals)

\* a call whose dmax is not positive
InitSingleInvalid == InitSingleWith(SingleDmaxInvalid)

SingleSolveCancel_poll(flag) == flag

\* lines 311-367 hold no read of RAWGlobals.cancel_bift: nothing cancels
SingleSolveCancel(flag) == FALSE

\* lines 314-327: the one inner solve
SingleSolveSolve ==
    /\ pcSS = "start"
    /\ IF SingleSolveCancel(cancel_bift)
       THEN /\ pcSS' = "done"
            /\ UNCHANGED <<Pr, chisq>>
       ELSE /\ \E v \in PrVals, w \in PrVals :
                 Pr' = [k \in 1..ss_args.N |-> IF k = 1 THEN v ELSE w]
            /\ chisq' \in ChiVals
            /\ pcSS' = "solved"
    /\ UNCHANGED <<ss_args, ift_sasm>>
    /\ UNCHANGED notSingle

\* lines 330-367: the artifact is assembled and returned
SingleSolveReturn ==
    /\ pcSS = "solved"
    /\ ift_sasm' = IF SingleSolveCancel(cancel_bift)
                   THEN NoArtifact
                   ELSE Artifact(Pr, chisq, ss_args.dmax, ss_args.qmin,
                                 ss_args.qmax)
    /\ pcSS' = "done"
    /\ UNCHANGED <<ss_args, Pr, chisq>>
    /\ UNCHANGED notSingle

NextSingle ==
    \/ SetCancel
    \/ SingleSolveSolve
    \/ SingleSolveReturn

SpecSingle == InitSingle /\ [][NextSingle]_vars

SpecSingleInvalid == InitSingleInvalid /\ [][NextSingle]_vars

----------------------------------------------------------------------------
(* fmin with the simplex followed.  A vertex is a pair of rational         *)
(* numbers, the seed [log(alpha), dmax] of fineSearch; the objective is a  *)
(* float whose finite values are rational numbers.  The driver thread may  *)
(* set the flag while fmin runs.                                           *)

\* the loop of a followed fmin call is left when iterations reaches this
MaxSimplexIter == 4

FinR(r) == [k |-> "fin", v |-> r]

NaNR == [k |-> "nan", v |-> <<0, 1>>]

PosInfR == [k |-> "inf", v |-> <<1, 1>>]

NegInfR == [k |-> "inf", v |-> <<-1, 1>>]

\* a < b on floats
VLt(a, b) ==
    /\ a.k # "nan"
    /\ b.k # "nan"
    /\ \/ a.k = "fin" /\ b.k = "fin" /\ RLt(a.v, b.v)
       \/ a.k = "fin" /\ b = PosInfR
       \/ a = NegInfR /\ b.k = "fin"
       \/ a = NegInfR /\ b = PosInfR

\* a <= b on floats
VLe(a, b) == VLt(a, b) \/ (a.k # "nan" /\ a = b)

RAbs(r) == <<Abs(r[1]), r[2]>>

\* abs(a - b) on floats
VAbsDiff(a, b) ==
    IF a.k = "nan" \/ b.k = "nan" THEN NaNR
    ELSE IF a.k = "inf" /\ b.k = "inf"
         THEN (IF a = b THEN NaNR ELSE PosInfR)
    ELSE IF a.k = "inf" \/ b.k = "inf" THEN PosInfR
    ELSE FinR(RAbs(RSub(a.v, b.v)))

\* the builtin max: the first item, replaced by each later item that
\* compares greater than it
RECURSIVE PyMaxFrom(_, _)
PyMaxFrom(best, seq) ==
    IF seq = << >> THEN best
    ELSE PyMaxFrom(IF VLt(best, seq[1]) THEN seq[1] ELSE best, Tail(seq))

PyMax(seq) == PyMaxFrom(seq[1], Tail(seq))

\* ca*p + cb*q on vertices
Comb(ca, p, cb, q) ==
    [n \in 1..SimplexN |-> RAdd(RMul(ca, p[n]), RMul(cb, q[n]))]

\* the objectives fmin is followed on: the values func gives at a vertex
Funcs == {"bowl", "nan", "flat", "slope", "edge", "pit"}

Objective(f, p) ==
    IF f = "bowl"
    THEN FinR(RAdd(RAbs(RSub(p[1], Rat(1, 1))), RAbs(RSub(p[2], Rat(1, 1)))))
    ELSE IF f = "nan" THEN NaNR
    ELSE IF f = "flat" THEN FinR(Rat(0, 1))
    ELSE IF f = "slope" THEN FinR(RSub(Rat(0, 1), p[1]))
    ELSE IF f = "edge"
         THEN (IF RLt(Rat(2, 1), RAdd(p[1], p[2])) THEN NaNR
               ELSE FinR(p[2]))
    ELSE IF RLt(p[2], Rat(1, 1)) THEN NegInfR ELSE FinR(p[2])

X0Vals == {<<Rat(0, 1), Rat(2, 1)>>, <<Rat(1, 1), Rat(1, 1)>>,
           <<Rat(2, 1), Rat(0, 1)>>}

\* lines 116-127: x0 with coordinate k moved by nonzdelt = 0.05, or set to
\* zdelt = 0.00025 where it is zero
Perturb(y, k) ==
    [y EXCEPT ![k] = IF y[k] # Rat(0, 1) THEN RMul(Rat(105, 100), y[k])
                     ELSE Rat(25, 100000)]

argsort_none(f) == {[j \in 0..SimplexN |-> j]}

\* np.argsort(fsim): an order of the indices that sorts fsim, NaN last; the
\* order of equal values is not fixed
argsort(f) ==
    {ind \in [0..SimplexN -> 0..SimplexN] :
        /\ \A j1 \in 0..SimplexN, j2 \in 0..SimplexN :
             ind[j1] = ind[j2] => j1 = j2
        /\ \A j \in 0..(SimplexN - 1) :
             VLe(f[ind[j]], f[ind[j + 1]]) \/ f[ind[j + 1]].k = "nan"}

\* np.take(a, ind, 0)
take(a, ind) == [j \in 0..SimplexN |-> a[ind[j]]]

xtol == Rat(1, 10000)

ftol == Rat(1, 10000)

\* lines 146-148: max(np.ravel(abs(sim[1:]-sim[0]))) <= xtol and
\* max(abs(fsim[0]-fsim[1:])) <= ftol
Converged(s, f) ==
    LET xs == [n \in 1..(SimplexN * SimplexN) |->
                 LET j == ((n - 1) \div SimplexN) + 1
                     k == ((n - 1) % SimplexN) + 1
                 IN  FinR(RAbs(RSub(s[j][k], s[0][k])))]
        fs == [j \in 1..SimplexN |-> VAbsDiff(f[0], f[j])]
    IN  VLe(PyMax(xs), FinR(xtol)) /\ VLe(PyMax(fs), FinR(ftol))

\* np.add.reduce(sim[:-1], 0): the sum of the vertices 0..j
RECURSIVE SumTo(_, _)
SumTo(s, j) ==
    IF j = 0 THEN s[0]
    ELSE Comb(Rat(1, 1), SumTo(s, j - 1), Rat(1, 1), s[j])

\* lines 150-190: one iteration on the ranked simplex s with values f,
\* before the sort: the new simplex, its values and the number of
\* evaluations made (rho = 1, chi = 2, psi = 0.5, sigma = 0.5)
Iteration(g, s, f) ==
    LET zero == [n \in 1..SimplexN |-> Rat(0, 1)]
        xbar == Comb(Rat(1, SimplexN), SumTo(s, SimplexN - 1), Rat(0, 1), zero)
        worst == s[SimplexN]
        xr == Comb(Rat(2, 1), xbar, Rat(-1, 1), worst)
        fxr == Objective(g, xr)
        xe == Comb(Rat(3, 1), xbar, Rat(-2, 1), worst)
        fxe == Objective(g, xe)
        xc == Comb(Rat(3, 2), xbar, Rat(-1, 2), worst)
        fxc == Objective(g, xc)
        xcc == Comb(Rat(1, 2), xbar, Rat(1, 2), worst)
        fxcc == Objective(g, xcc)
        replace(p, v, n) == [sim |-> [s EXCEPT ![SimplexN] = p],
                             fsim |-> [f EXCEPT ![SimplexN] = v],
                             evals |-> n]
        shrunk == [j \in 0..SimplexN |->
                     IF j = 0 THEN s[0]
                     ELSE Comb(Rat(1, 2), s[0], Rat(1, 2), s[j])]
        shrink(n) == [sim |-> shrunk,
                      fsim |-> [j \in 0..SimplexN |->
                                  IF j = 0 THEN f[0]
                                  ELSE Objective(g, shrunk[j])],
                      evals |-> n + SimplexN]
    IN  IF VLt(fxr, f[0])
        THEN (IF VLt(fxe, fxr) THEN replace(xe, fxe, 2)
              ELSE replace(xr, fxr, 2))
        ELSE IF VLt(fxr, f[SimplexN - 1]) THEN replace(xr, fxr, 1)
        ELSE IF VLt(fxr, f[SimplexN])
             THEN (IF VLe(fxc, fxr) THEN replace(xc, fxc, 2) ELSE shrink(2))
        ELSE (IF VLt(fxcc, f[SimplexN]) THEN replace(xcc, fxcc, 2)
              ELSE shrink(2))

InitSimplex ==
    /\ SearchOff
    /\ SolverOff
    /\ MatrixOff
    /\ PriorOff
    /\ SingleOff
    /\ SasmOff
    /\ func \in Funcs
    /\ x0 \in X0Vals
    /\ sim = << >>
    /\ fsim = << >>
    /\ xopt = [none |-> TRUE, x |-> << >>]
    /\ pcF = "start"

\* lines 96-139: the initial simplex, evaluated and sorted
FminStart ==
    /\ pcF = "start"
    /\ LET s == [j \in 0..SimplexN |-> IF j = 0 THEN x0 ELSE Perturb(x0, j)]
           f == [j \in 0..SimplexN |-> Objective(func, s[j])]
       IN  \E ind \in argsort(f) :
             /\ fsim' = take(f, ind)
             /\ sim' = take(s, ind)
    /\ iterations' = 1
    /\ fcalls' = SimplexN + 1
    /\ pcF' = "loop"
    /\ UNCHANGED <<cancel_bift, cancel_at, func, x0, xopt>>
    /\ UNCHANGED notSimplex

\* lines 141-235: one pass of the while loop: the loop guard, the
\* cancellation check, the convergence break, else one iteration and the
\* sort; past the loop, return sim[0]
FminStep ==
    /\ pcF = "loop"
    /\ IF fcalls < maxfun /\ iterations < MaxSimplexIter
       THEN IF cancel_bift
            THEN /\ xopt' = [none |-> TRUE, x |-> << >>]
                 /\ pcF' = "done"
                 /\ UNCHANGED <<sim, fsim, iterations, fcalls>>
            ELSE IF Converged(sim, fsim)
                 THEN /\ xopt' = [none |-> FALSE, x |-> sim[0]]
                      /\ pcF' = "done"
                      /\ UNCHANGED <<sim, fsim, iterations, fcalls>>
                 ELSE LET it == Iteration(func, sim, fsim)
                      IN  /\ \E ind \in argsort(it.fsim) :
                                /\ sim' = take(it.sim, ind)
                                /\ fsim' = take(it.fsim, ind)
                          /\ iterations' = iterations + 1
                          /\ fcalls' = fcalls + it.evals
                          /\ UNCHANGED <<xopt, pcF>>
       ELSE /\ xopt' = [none |-> FALSE, x |-> sim[0]]
            /\ pcF' = "done"
            /\ UNCHANGED <<sim, fsim, iterations, fcalls>>
    /\ UNCHANGED <<cancel_bift, cancel_at, func, x0>>
    /\ UNCHANGED notSimplex

NextSimplex ==
    \/ SetCancel
    \/ FminStart
    \/ FminStep

SpecSimplex == InitSimplex /\ [][NextSimplex]_vars

----------------------------------------------------------------------------
(* One SASM measurement (src/src/SASM.py).  An array is the sequence of    *)
(* its elements, an element being the set of the indices of the raw        *)
(* points it was computed from.                                            *)

\* largest length of the raw arrays of a modelled measurement
MaxRawLen == 3

Min(a, b) == IF a < b THEN a ELSE b

Max(a, b) == IF a < b THEN b ELSE a

\* the slice s[a:b] of python: a negative index counts from the end and an
\* index past an end is cut to it
PySlice(s, a, b) ==
    LET n == Len(s)
        lo == IF a < 0 THEN Max(a + n, 0) ELSE Min(a, n)
        hi == IF b < 0 THEN Max(b + n, 0) ELSE Min(b, n)
    IN  IF lo < hi THEN SubSeq(s, lo + 1, hi) ELSE << >>

\* the raw points a sum over the slice is computed from
Merge(s) == UNION {s[k] : k \in 1..Len(s)}

\* lines 18-60: SASM(i, q, err, parameters) for arrays of n points
SASM(n) ==
    LET raw == [k \in 1..n |-> {k - 1}]
    IN  [i_raw |-> raw, q_raw |-> raw, err_raw |-> raw,
         i_binned |-> raw, q_binned |-> raw, err_binned |-> raw,
         i |-> raw, q |-> raw, err |-> raw,
         bin_size |-> 1, selected_q_range |-> <<0, n>>]

\* lines 62-71: _update, which computes i, q and err elementwise from the
\* binned arrays
update(o) ==
    [o EXCEPT !.i = o.i_binned, !.err = o.err_binned, !.q = o.q_binned]

\* lines 123-137: reset, which holds no write of _selected_q_range
reset(o) ==
    [o EXCEPT !.i = o.i_raw, !.q = o.q_raw, !.err = o.err_raw,
              !.i_binned = o.i_raw, !.q_binned = o.q_raw,
              !.err_binned = o.err_raw]

\* line 142: the test that raises InvalidQrange
InvalidQrange(o, qrange) ==
    qrange[1] < 0 \/ qrange[2] > Len(o.q_binned)

\* lines 195-239: setBinning for a bin_size that is not zero
setBinning(o, bin_size, start_idx, end_idx) ==
    LET end0 == IF end_idx = -1 THEN Len(o.i_raw) ELSE end_idx
        len_iq == Len(PySlice(o.i_raw, start_idx, end0))
        no_of_bins == len_iq \div bin_size
        end1 == start_idx + no_of_bins * bin_size
        i_roi == PySlice(o.i_raw, start_idx, end1)
        q_roi == PySlice(o.q_raw, start_idx, end1)
        err_roi == PySlice(o.err_raw, start_idx, Len(o.err_raw))
        bins(roi) == [e \in 1..no_of_bins |->
                        Merge(PySlice(roi, (e - 1) * bin_size,
                                      (e - 1) * bin_size + bin_size))]
        binned(raw, roi) ==
            IF end1 = -1 \/ end1 = Len(o.i_raw)
            THEN PySlice(raw, 0, start_idx) \o bins(roi)
            ELSE PySlice(raw, 0, start_idx) \o bins(roi)
                     \o PySlice(raw, end1, Len(raw))
        o2 == [o EXCEPT !.bin_size = bin_size,
                        !.i_binned = binned(o.i_raw, i_roi),
                        !.q_binned = binned(o.q_raw, q_roi),
                        !.err_binned = binned(o.err_raw, err_roi)]
    IN  [update(o2) EXCEPT !.selected_q_range = <<0, Len(o2.i_binned)>>]

\* the arguments the calls are made with
QrangeVals == (-1)..(MaxRawLen + 1)

BinSizeVals == 0..MaxRawLen

StartIdxVals == (-1)..MaxRawLen

EndIdxVals == (-1)..MaxRawLen

InitSasm ==
    /\ SearchOff
    /\ SolverOff
    /\ MatrixOff
    /\ PriorOff
    /\ SingleOff
    /\ SimplexOff
    /\ \E n \in 0..MaxRawLen : sasm = SASM(n)
    /\ raised = ""

\* lines 140-145
SasmSetQrange ==
    /\ raised # "off"
    /\ \E qmin \in QrangeVals, qmax \in QrangeVals :
         IF InvalidQrange(sasm, <<qmin, qmax>>)
         THEN /\ raised' = "InvalidQrange"
              /\ UNCHANGED sasm
         ELSE /\ raised' = ""
              /\ sasm' = [sasm EXCEPT !.selected_q_range = <<qmin, qmax>>]
    /\ UNCHANGED notSasm

\* lines 195-239; with bin_size = 0 the division of line 208 raises after
\* line 203 has stored the bin size
SasmSetBinning ==
    /\ raised # "off"
    /\ \E bin_size \in BinSizeVals, start_idx \in StartIdxVals,
          end_idx \in EndIdxVals :
         IF bin_size = 0
         THEN /\ raised' = "ZeroDivisionError"
              /\ sasm' = [sasm EXCEPT !.bin_size = 0]
         ELSE /\ raised' = ""
              /\ sasm' = setBinning(sasm, bin_size, start_idx, end_idx)
    /\ UNCHANGED notSasm

\* lines 123-137
SasmReset ==
    /\ raised # "off"
    /\ raised' = ""
    /\ sasm' = reset(sasm)
    /\ UNCHANGED notSasm

NextSasm ==
    \/ SasmSetQrange
    \/ SasmSetBinning
    \/ SasmReset

SpecSasm == InitSasm /\ [][NextSasm]_vars

----------------------------------------------------------------------------
(* Properties of the search.                                               *)

Last(q) == q[Len(q)]

\* some cell was selected as best: finalpost left its initial value
BestSelected == finalpost # Fin(finalpost_init)

\* the first n records are the grid records of cells 0..n-1
GridPrefix(n) ==
    /\ Len(queue) >= n
    /\ \A i \in 1..n : queue[i] = Update(i - 1, total_points, "")

\* C1: a run in which the flag is never set and some cell is selected as
\* best puts exactly N_D*N_alpha grid update records with non-decreasing
\* spoint, then one 'Running a fine search' update, then one best update,
\* and nothing else.
C1_GridOrder ==
    (pc = "done" /\ ~cancel_bift /\ BestSelected) =>
        LET n == args.dmaxN * args.alphaN
        IN  /\ Len(queue) = n + 2
            /\ \A i \in 1..n :
                 queue[i].tag = "update" /\ queue[i].status = ""
            /\ \A i \in 1..(n - 1) : queue[i].spoint <= queue[i + 1].spoint
            /\ queue[n + 1].tag = "update"
            /\ queue[n + 1].status = FineStatus
            /\ queue[n + 2].tag = "update"
            /\ queue[n + 2].status = ""

C1_Witness ==
    /\ pc = "done"
    /\ ~cancel_bift
    /\ BestSelected
    /\ args.dmaxN = 2
    /\ args.alphaN = 2
    /\ Len(queue) = 6

\* C2: when the flag is seen set at the check before cell k, the queue
\* holds exactly the k update records of the cells before k, the step puts
\* one 'canceled' record and returns None; after the return nothing more is
\* evaluated or put.
C2_CancelBeforeCell ==
    /\ [][(pc = "check" /\ cancel_bift) =>
            LET k == dmax_idx * args.alphaN + alpha_idx
            IN  /\ Len(queue) = k
                /\ GridPrefix(k)
                /\ queue' = Append(queue, Canceled)
                /\ pc' = "done"
                /\ ret' = "None"
                /\ UNCHANGED <<current_point, post, c, finalpost>>]_vars
    /\ [][pc = "done" =>
            UNCHANGED <<queue, pc, ret, current_point, post, c>>]_vars

C2_Witness ==
    /\ pc = "done"
    /\ iterations = 0
    /\ current_point = 1
    /\ total_points = 4
    /\ queue = <<Update(0, 4, ""), Canceled>>

MidRun == {"check", "eval", "postgrid", "fine", "final"}

\* the queue is k update records followed by one 'canceled' record
EndsCanceledAfter(k) ==
    /\ Len(queue) = k + 1
    /\ \A i \in 1..k : queue[i].tag = "update"
    /\ queue[k + 1] = Canceled

\* C3 as claimed: the flag set at any moment between the start and the
\* return of doBift (here: of a call with a non-empty grid) makes the run
\* put k < N_D*N_alpha update records followed by exactly one 'canceled'
\* record.
C3_AnyMomentCancels ==
    (pc = "done" /\ cancel_at.pc \in MidRun /\ total_points > 0) =>
        /\ Len(queue) >= 1
        /\ EndsCanceledAfter(Len(queue) - 1)
        /\ Len(queue) - 1 < total_points

\* C3 amended: the flag takes effect at the next poll only.  Set while a
\* grid check is still ahead: k < N_D*N_alpha updates, then one 'canceled'.
\* Set after the last grid check and before the simplex loop polls, with a
\* best cell selected: N_D*N_alpha + 1 updates, then one 'canceled'.  Set
\* during the final solve: no 'canceled' record, the run ends with the best
\* record.  A 'canceled' record is always the single last record, after
\* k < N_D*N_alpha or k = N_D*N_alpha + 1 updates.
C3_CancelAtNextPoll ==
    (pc = "done" /\ cancel_at.pc \in MidRun) =>
        LET n == total_points
            gridAhead ==
                \/ cancel_at.pc = "check"
                \/ cancel_at.pc = "eval" /\ cancel_at.point + 1 < n
            simplexAhead ==
                /\ BestSelected
                /\ \/ cancel_at.pc = "postgrid"
                   \/ cancel_at.pc = "eval" /\ cancel_at.point + 1 = n
        IN  /\ gridAhead =>
                /\ EndsCanceledAfter(Len(queue) - 1)
                /\ Len(queue) - 1 < n
            /\ simplexAhead => EndsCanceledAfter(n + 1)
            /\ cancel_at.pc = "final" =>
                /\ ret = "ift_sasm"
                /\ \A i \in 1..Len(queue) : queue[i].tag = "update"
            /\ (\E i \in 1..Len(queue) : queue[i] = Canceled) =>
                /\ EndsCanceledAfter(Len(queue) - 1)
                /\ Len(queue) - 1 < n \/ Len(queue) - 1 = n + 1

C3_Witness ==
    /\ pc = "done"
    /\ cancel_at.pc = "eval"
    /\ cancel_at.point = 3
    /\ total_points = 4
    /\ Len(queue) = 6
    /\ Last(queue) = Canceled

\* C4: doBift returns the artifact exactly when the whole grid was
\* traversed and the fine search returned a result, and then the best
\* update is the last record; a 'canceled' or 'failed' record is the last
\* record of the run, which returns None.
C4_ArtifactIffCompleted ==
    /\ (pc = "done") = (ret # "running")
    /\ pc = "done" =>
         ((ret = "ift_sasm") = (dmax_idx = args.dmaxN /\ src_result = "pair"))
    /\ ret = "ift_sasm" =>
         /\ Len(queue) = total_points + 2
         /\ Last(queue) = Update(total_points, total_points, "")
    /\ \A i \in 1..Len(queue) :
         queue[i].tag \in {"canceled", "failed"} =>
            /\ i = Len(queue)
            /\ pc = "done"
            /\ ret = "None"
            /\ \A j \in 1..Len(queue) :
                 queue[j] # Update(total_points, total_points, "")

C4_Witness ==
    /\ pc = "done"
    /\ ret = "ift_sasm"
    /\ src_result = "pair"
    /\ cancel_at.pc = "final"

\* C5: when the grid was traversed and every cell gave NaN or +infinity
\* (or the grid is empty), the queue holds all grid updates and then one
\* 'failed' record; no 'Running a fine search' record, no fine search, and
\* doBift returns None.
C5_FailedWhenNoBest ==
    (pc = "done" /\ dmax_idx = args.dmaxN /\ only_unselectable) =>
        /\ Len(queue) = total_points + 1
        /\ GridPrefix(total_points)
        /\ Last(queue) = Failed
        /\ ret = "None"
        /\ iterations = 0
        /\ src_result = "unset"

C5_Witness ==
    /\ pc = "done"
    /\ dmax_idx = args.dmaxN
    /\ only_unselectable
    /\ total_points = 4
    /\ post = NaN
    /\ Last(queue) = Failed

\* C6: a cell whose evidence value is NaN, +infinity or -infinity is not
\* taken as the best of the grid, and its update record is put.
C6_NonFiniteNeverBest ==
    [][(pc = "eval" /\ current_point' = current_point + 1
          /\ ~IsFinite(post')) =>
            /\ UNCHANGED <<finalpost, alphafin, dmaxfin>>
            /\ queue' = Append(queue, Update(current_point, total_points, ""))
      ]_vars

\* C7: a call with N < 4 is rejected at the entry point, before any cell is
\* evaluated and before any record is put, with an outcome that is neither
\* 'canceled' nor 'failed'.
C7_InvalidArgsRejected ==
    args.N < 4 =>
        /\ queue = << >>
        /\ pc \in {"idle", "done"}
        /\ ret \in {"running", "PreconditionFailure"}

\* C14: when fmin leaves its loop in the fine search, then, if the loop was
\* entered with the flag set, no further evaluation of the objective is
\* made, fineSearch returns None, exactly one 'canceled' record follows the
\* 'Running a fine search' record, there is no final solve and no best
\* record, and doBift returns nothing; otherwise fineSearch returns the pair
\* (exp(opt[0]), opt[1]) of fmin's best vertex and doBift goes on to the
\* final solve.
C14_FineSearchCancel ==
    [][(pc = "fine" /\ pc' # "fine") =>
          IF cancel_bift /\ iterations < MaxIterations
          THEN /\ fcalls' = fcalls /\ iterations' = iterations
               /\ src_result' = "None"
               /\ Last(queue) = Update(current_point, total_points, FineStatus)
               /\ queue' = Append(queue, Canceled)
               /\ \A i \in 1..Len(queue) : queue[i].tag # "canceled"
               /\ pc' = "done"
               /\ ret' = "None"
               /\ UNCHANGED <<alphafin, dmaxfin, post, c>>
          ELSE /\ src_result' = "pair"
               /\ \E da \in FineShift, dd \in FineShift :
                    /\ alphafin' = FExp(FAdd(FLog(alphafin), Fin(da)))
                    /\ dmaxfin' = FAdd(dmaxfin, Fin(dd))
               /\ pc' = "final"
               /\ UNCHANGED <<queue, ret>>]_vars

\* the fine search was cancelled after it had made a simplex iteration
C14_Witness ==
    /\ pc = "done"
    /\ src_result = "None"
    /\ fcalls > SimplexN + 1
    /\ Last(queue) = Canceled
    /\ queue[Len(queue) - 1].status = FineStatus

\* the state the fine search starts from is a state of the search
InitFminReached ==
    /\ pc = "fine"
    /\ iterations = 1
    /\ ~cancel_bift
    /\ args.alphaN = 1 /\ args.dmaxN = 1
    /\ finalpost = Fin(0) /\ bestc = Fin(1) /\ post = Fin(0) /\ c = Fin(1)

\* C15: fmin makes at most maxfun evaluations of the objective, the n+1 of
\* the initial simplex included, and at most maxiter iterations.
C15_WithinBudget ==
    pc \in {"fine", "final", "done"} =>
        (fcalls <= maxfun /\ iterations <= maxiter)

\* a record that ends a run: 'canceled', 'failed', or the best record of
\* lines 543-550 (no status, spoint = tpoint = the number of cells)
IsTerminal(rec) ==
    \/ rec.tag \in {"canceled", "failed"}
    \/ rec = Update(total_points, total_points, "")

\* C21: a doBift call that has returned has put exactly one terminal
\* record ('canceled', 'failed' or the final best update), and it is the
\* last record of the queue; a 'canceled' or 'failed' record is never
\* followed by any record, so the two never both occur and no update comes
\* after either; nothing is put after the return.
C21_OneTerminalRecord ==
    /\ [](pc = "done" =>
            /\ ret # "running"
            /\ Len(queue) >= 1
            /\ IsTerminal(Last(queue))
            /\ \A i \in 1..(Len(queue) - 1) : ~IsTerminal(queue[i]))
    /\ [](\A i \in 1..Len(queue) :
            queue[i].tag \in {"canceled", "failed"} =>
                (i = Len(queue) /\ pc = "done"))
    /\ [](pc # "done" => \A i \in 1..Len(queue) : ~IsTerminal(queue[i]))
    /\ [][pc = "done" => UNCHANGED <<queue, pc, ret>>]_vars

\* a run over four cells none of which could be selected has ended with
\* 'failed' after the four grid records
C21_Witness ==
    /\ pc = "done"
    /\ ret = "None"
    /\ total_points = 4
    /\ Len(queue) = 5
    /\ Last(queue) = Failed
    /\ ~cancel_bift

\* C22: a 'canceled' record is put only by a step that reads the flag set,
\* at the check before a grid cell or at the head of a pass of the simplex
\* loop that the loop guard let in; the fine search gives None on no other
\* path: when fmin leaves its loop because it converged or because its
\* budget is used up it returns its best vertex, also when the flag is set
\* by then, and doBift goes on to the final solve without a 'canceled'
\* record.
C22_CanceledOnlyIfObserved ==
    /\ [][(Len(queue') > Len(queue) /\ Last(queue') = Canceled) =>
            /\ cancel_bift
            /\ pc \in {"check", "fine"}
            /\ pc = "fine" => iterations < MaxIterations]_vars
    /\ [][(pc = "fine" /\ pc' # "fine"
             /\ ~(cancel_bift /\ iterations < MaxIterations)) =>
            /\ src_result' = "pair"
            /\ pc' = "final"
            /\ queue' = queue
            /\ ret' = "running"]_vars
    /\ [](src_result = "None" => cancel_bift)
    /\ []((\E i \in 1..Len(queue) : queue[i] = Canceled) => cancel_bift)

\* the flag was set during the fine search, after the last pass the loop
\* guard let in, and fmin returned its best vertex
C22_Witness ==
    /\ pc = "final"
    /\ src_result = "pair"
    /\ cancel_bift
    /\ cancel_at.pc = "fine"
    /\ Last(queue) = Update(total_points, total_points, FineStatus)

\* C17: the search never writes the flag: only a step of the driver, which
\* leaves the search where it is, changes it, and only to set it; so after a
\* run the flag is what the driver last wrote.  A new search (over a grid
\* that has a first cell) started while the flag is still set is cancelled
\* at its first cell: it puts exactly one record, 'canceled', and returns
\* nothing.
C17_FlagOnlyRead ==
    /\ [][cancel_bift' # cancel_bift =>
            /\ cancel_bift' = TRUE
            /\ UNCHANGED <<pc, queue, ret, runs, current_point>>]_vars
    /\ [][(cancel_at.pc # "never") => cancel_bift']_vars
    /\ []((runs > 1 /\ args.dmaxN > 0 /\ args.alphaN > 0) =>
            /\ pc \in {"idle", "check", "done"}
            /\ current_point = 0
            /\ (pc = "done" => (queue = <<Canceled>> /\ ret = "None")))

\* a second search, started with the flag set, has been cancelled
C17_Witness ==
    /\ runs = 2
    /\ pc = "done"
    /\ cancel_bift
    /\ queue = <<Canceled>>
    /\ args.dmaxN > 1

\* the post of the n-th cell of the traversal, n from 0, as the matrix has it
PostAt(n) == all_posteriors[n \div args.alphaN][n % args.alphaN]

\* cell n is the first cell of the set S that attains the least post of S
FirstLeast(n, S) ==
    /\ n \in S
    /\ \A j \in S : ~FLt(PostAt(j), PostAt(n))
    /\ \A j \in S : j < n => PostAt(j) # PostAt(n)

\* the tracked best is the pair of cell n, the tracked evidence its post
TracksCell(n) ==
    /\ alphafin = FExp(Fin(alpha_points(n % args.alphaN)))
    /\ dmaxfin = Fin(dmax_points(n \div args.alphaN))
    /\ finalpost = PostAt(n)

\* x is the least of the set S of chi-squared values
LeastChi(x, S) == x \in S /\ \A y \in S : ~FLt(y, x)

----------------------------------------------------------------------------
(* Properties of the inner solver.                                         *)

\* C8: every call of bift terminates: at most maxit outer iterations, and
\* the backtracking loop ends because each pass divides omega, which it
\* does only while omega > omegamin, so omega stays above
\* omegamin/omegareduction and the number of divisions is bounded.
C8_SolverTerminates ==
    /\ [](ite <= maxit /\ omega * omegareduction > omegamin)
    /\ <>(pcS = "done")

C8_Witness ==
    /\ pcS = "done"
    /\ ite = maxit
    /\ omega > omegamin

\* |1 - dotsp| <= dotsptol
NearOne(d) == ~FLt(Fin(dotsptol), FAbs(FSub(Fin(Unit), d))) /\ d.k # "nan"

\* C9 as claimed: the outer loop stops exactly when ite >= minit and
\* (ite >= maxit or omega <= omegamin or |1 - dotsp| <= dotsptol), and it
\* makes at least minit iterations.
C9_StopExactlyWhen ==
    /\ [][pcS = "outer" =>
            ((pcS' = "done") =
                (ite >= minit /\ (ite >= maxit \/ omega <= omegamin
                                    \/ NearOne(dotsp))))]_vars
    /\ [](pcS = "done" => ite >= minit)

\* C9 amended: the outer loop stops exactly when ite >= minit and
\* (ite >= maxit or omega <= omegamin or not |1 - dotsp| > dotsptol), which
\* includes dotsp being NaN; it makes at least minit iterations, although
\* the first pass sets dotsp to 1 (to NaN for a non-finite prior).
C9_StopUnlessStillFar ==
    /\ [][pcS = "outer" =>
            ((pcS' = "done") =
                (ite >= minit /\ (ite >= maxit \/ omega <= omegamin
                                    \/ NearOne(dotsp) \/ dotsp = NaN)))]_vars
    /\ [](pcS = "done" => ite >= minit)
    /\ []((pcS = "outer" /\ ite = 1) => dotsp \in {Fin(Unit), NaN})

C9_Witness ==
    /\ pcS = "done"
    /\ ite = minit
    /\ omega > omegamin
    /\ dotsp = NaN

\* C10: omega starts at 0.5 and never grows; it changes only in a pass of
\* the backtracking loop, by division by omegareduction.
C10_OmegaNonIncreasing ==
    /\ omega = omega_init
    /\ [][/\ omega' <= omega
          /\ omega' # omega =>
               /\ pcS = "inner"
               /\ pcS' = "inner"
               /\ omega' * omegareduction = omega]_vars

C10_Witness ==
    /\ pcS = "outer"
    /\ ite > minit
    /\ omega = omega_init \div 8

\* C11 as stated: in every state of the solver omega lies in the half-open
\* range (omegamin, 1], so omega never drops to or below omegamin.
C11_OmegaAboveMin ==
    pcS # "off" => (omega > omegamin /\ omega <= Unit)

\* C11 amended: omega never exceeds its initial 0.5 and stays above
\* omegamin / omegareduction; it can end at or below omegamin, and once it
\* is there the backtracking loop is closed.
C11_OmegaAboveHalfMin ==
    pcS # "off" =>
        /\ omega <= omega_init
        /\ omega * omegareduction > omegamin
        /\ (omega <= omegamin => ~InnerCond(ite, omega, dotsp))

\* omega has been cut to the floor or below, with the solver still running
C11_Witness ==
    pcS = "inner" /\ omega <= omegamin /\ FLt(dotsp, Fin(0))

\* C20: a backtracking step happens only in a pass of the outer loop that
\* made the update step, so Pold and dP are the snapshot and the proposal of
\* that pass and not the zero buffers; it never happens in the first pass
\* nor when alpha >= bkkmax; it rewrites P from them with the reduced omega
\* and leaves m, dP and Pold as they are.
C20_BacktrackAfterUpdate ==
    [][omega' # omega =>
          /\ ite > 1
          /\ UpdateRuns(ite - 1)
          /\ alpha < bkkmax
          /\ Pold = ite /\ dP = ite /\ m = ite
          /\ Pold # 0 /\ dP # 0
          /\ P = Blend(ite, ite, omega)
          /\ P' = Blend(Pold, dP, omega')
          /\ UNCHANGED <<m, dP, Pold, ite>>]_vars

\* several backtracking steps have been taken
C20_Witness ==
    /\ pcS = "inner"
    /\ ite > 1
    /\ omega * omegareduction < omega_init
    /\ P = Blend(ite, ite, omega)

----------------------------------------------------------------------------
(* Properties of the matrix A.                                             *)

\* C12 as stated: A has 1 on the diagonal, -0.5 at A[k,k+1] and A[k+1,k] for
\* the interior k (1 <= k <= N-2, the corner entries apart), 0 at the corner
\* off-diagonals A[0,1] and A[N-1,N-2], and 0 everywhere else.
C12_CornersZeroed ==
    (pcM = "done" /\ sizeA >= 2) =>
        /\ \A k \in 0..(sizeA - 1) : Entry(Amat, sizeA, k, k) = 2
        /\ \A k \in 1..(sizeA - 2) : Entry(Amat, sizeA, k, k + 1) = -1
        /\ \A k \in 1..(sizeA - 3) : Entry(Amat, sizeA, k + 1, k) = -1
        /\ Entry(Amat, sizeA, 0, 1) = 0
        /\ Entry(Amat, sizeA, sizeA - 1, sizeA - 2) = 0

\* C12 amended: A is the full symmetric tridiagonal matrix: 1 on the
\* diagonal, -0.5 at A[k,k+1] and A[k+1,k] for every 0 <= k <= N-2 (A[0,1]
\* and A[N-1,N-2] included), 0 everywhere else; the two entries zeroed after
\* the shifts are the wrapped-around ones, mat2[0,0] and mat1[N-1,N-1].
C12_Tridiagonal ==
    pcM = "done" =>
        /\ \A r \in 0..(sizeA - 1), k \in 0..(sizeA - 1) :
             Entry(Amat, sizeA, r, k) =
                 IF r = k THEN 2
                 ELSE IF r = k + 1 \/ k = r + 1 THEN -1
                 ELSE 0
        /\ Entry(mat2, sizeA, 0, 0) = 0
        /\ Entry(mat1, sizeA, sizeA - 1, sizeA - 1) = 0

\* A of a size the search uses has been built
C12_Witness ==
    pcM = "done" /\ sizeA >= 4 /\ Entry(Amat, sizeA, 0, 1) = -1

----------------------------------------------------------------------------
(* Properties of the sphere prior.                                         *)

\* C13 as stated: with avm = pmin * max(P) of the unfloored P, every bin of
\* the returned prior is at least avm, the first bin equals avm, the sum is
\* the sum of the unfloored P, and no bin is negative.
C13_FloorIsAvm ==
    pcP = "done" =>
        /\ \A k \in 1..priorN : RLe(avm, Pprior[k])
        /\ Pprior[1] = avm
        /\ RSum(Pprior) = sum1
        /\ \A k \in 1..priorN : RLe(Rat(0, 1), Pprior[k])

\* C13 amended: every bin of the returned prior is at least pmin times the
\* largest returned bin, which is avm * sum1/sum2 and lies strictly between
\* 0 and avm; the first bin equals it; the sum is the sum of the unfloored P.
C13_FloorIsScaledAvm ==
    pcP = "done" =>
        LET floor == RDiv(RMul(avm, sum1), sum2)
        IN  /\ floor = RMul(pmin, RMax(Pprior))
            /\ \A k \in 1..priorN : RLe(floor, Pprior[k])
            /\ Pprior[1] = floor
            /\ RLt(Rat(0, 1), floor) /\ RLt(floor, avm)
            /\ RSum(Pprior) = sum1

\* a prior of a length the search uses has been returned
C13_Witness ==
    pcP = "done" /\ priorN >= 4 /\ RLt(Pprior[1], Pprior[2])

----------------------------------------------------------------------------
(* Properties of SingleSolve and of the artifact.                          *)

\* C16: SingleSolve makes its one solve and returns the artifact without
\* reading the flag and without putting a record on the queue; it returns
\* the artifact also when the flag was set before or during the call.
C16_SingleSolveIgnoresFlag ==
    /\ [][pcSS' # pcSS => (queue' = queue /\ cancel_bift' = cancel_bift)]_vars
    /\ [][(pcSS # "done" /\ pcSS' = "done") =>
            /\ pcSS = "solved"
            /\ ift_sasm' = Artifact(Pr, chisq, ss_args.dmax, ss_args.qmin,
                                    ss_args.qmax)
            /\ ift_sasm' # NoArtifact]_vars
    /\ [](queue = << >>)

\* SingleSolve has returned an artifact with the flag set before its solve
C16_Witness ==
    /\ pcSS = "done"
    /\ cancel_bift
    /\ ift_sasm # NoArtifact
    /\ Len(ift_sasm.p) = ss_args.N + 2

\* C18: the artifact returned for resolution N has p of length N+2 with
\* p[0] = p[N+1] = 0 exactly, r of the same length and strictly increasing
\* from 0 to D_max, err_p all ones of the same length, and fit of the length
\* q_max - q_min of the windowed q.
C18_ArtifactShape ==
    pcSS = "done" =>
        LET n == ss_args.N + 2
        IN  /\ Len(ift_sasm.p) = n
            /\ ift_sasm.p[1] = Fin(0) /\ ift_sasm.p[n] = Fin(0)
            /\ Len(ift_sasm.r) = n
            /\ ift_sasm.r[1] = Rat(0, 1)
            /\ ift_sasm.r[n] = Rat(ift_sasm.dmax, 1)
            /\ \A k \in 1..(n - 1) : RLt(ift_sasm.r[k], ift_sasm.r[k + 1])
            /\ ift_sasm.err = [k \in 1..n |-> 1]
            /\ Len(ift_sasm.fit) = ss_args.qmax - ss_args.qmin
            /\ Len(ift_sasm.fit) = Len(ift_sasm.q)

----------------------------------------------------------------------------
(* Properties of fmin's simplex.                                           *)

\* fsim is in the order np.argsort gives (ascending, NaN last), fsim[j] is
\* the objective at sim[j], and no vertex has a value below fsim[0]
Ranked ==
    /\ \A j \in 0..(SimplexN - 1) :
         VLe(fsim[j], fsim[j + 1]) \/ fsim[j + 1].k = "nan"
    /\ \A j \in 0..SimplexN : fsim[j] = Objective(func, sim[j])
    /\ \A j \in 0..SimplexN : ~VLt(fsim[j], fsim[0])

\* C23: at the head of every pass of fmin's loop and at its return the
\* simplex is ranked: fsim ascending (NaN, which has no rank, last),
\* fsim[j] the objective at sim[j], sim[0] a best vertex; from one
\* iteration to the next fsim[0] does not increase (a number stays a number
\* and does not grow); and a point fmin returns is sim[0].
C23_SimplexRanked ==
    /\ [](pcF \in {"loop", "done"} => Ranked)
    /\ [][(pcF = "loop" /\ pcF' = "loop") =>
            /\ ~VLt(fsim[0], fsim'[0])
            /\ fsim[0].k # "nan" => VLe(fsim'[0], fsim[0])]_vars
    /\ []((pcF = "done" /\ ~xopt.none) => xopt.x = sim[0])
    /\ [][(pcF = "loop" /\ pcF' = "done") => UNCHANGED <<sim, fsim>>]_vars

\* fmin has returned a vertex that is better than its seed, from a simplex
\* that holds a NaN
C23_Witness ==
    /\ pcF = "done"
    /\ ~xopt.none
    /\ iterations > 2
    /\ VLt(fsim[0], Objective(func, x0))
    /\ fsim[SimplexN] = NaNR
    /\ xopt.x = sim[0]

----------------------------------------------------------------------------
(* Properties of the SASM measurement.                                     *)

\* C24: after construction and after every setQrange, setBinning and reset
\* call, 0 <= q_min and q_max <= len(binned q), and q, i and err are as long
\* as the binned arrays; a call that raises InvalidQrange leaves the object
\* as it was, and a call that selects another range over the same binned
\* arrays does not raise and selects a range with 0 <= q_min and
\* q_max <= len(binned q).
C24_QrangeWithinBinned ==
    /\ [](raised # "off" =>
            /\ 0 <= sasm.selected_q_range[1]
            /\ sasm.selected_q_range[2] <= Len(sasm.q_binned)
            /\ Len(sasm.q) = Len(sasm.q_binned)
            /\ Len(sasm.i) = Len(sasm.i_binned)
            /\ Len(sasm.err) = Len(sasm.err_binned)
            /\ Len(sasm.i_binned) = Len(sasm.q_binned)
            /\ Len(sasm.err_binned) = Len(sasm.q_binned))
    /\ [][raised' = "InvalidQrange" => sasm' = sasm]_vars
    /\ [][(sasm'.selected_q_range # sasm.selected_q_range
             /\ sasm'.q_binned = sasm.q_binned) =>
            /\ raised' = ""
            /\ 0 <= sasm'.selected_q_range[1]
            /\ sasm'.selected_q_range[2] <= Len(sasm.q_binned)]_vars

====
